---- MODULE Spec2Model ----
(***************************************************************************)
(* A model of the pydantic-agent state store: the Agent aggregate of       *)
(* src/src/models.py (messages, memories, thoughts, actions, tool          *)
(* catalogue), the PydanticAgent wrapper of src/src/agent.py that          *)
(* constructs and mutates it, and the tool descriptors of                  *)
(* src/src/tools.py.                                                       *)
(*                                                                         *)
(* Conventions.  Optional[str] is a sequence: <<>> is None, <<s>> is s.    *)
(* A dict is a function whose DOMAIN is its key set.  datetime.now() is a  *)
(* logical clock: the n-th read returns n.  uuid.uuid4() is a counter.     *)
(* The external text-generation call either returns a text or raises; the  *)
(* prompt handed to it (_get_prompt_messages, _format_tools_for_prompt)    *)
(* reads the store without changing it and is not modelled.  A caller may  *)
(* catch an exception and go on using the agent.                           *)
(***************************************************************************)
EXTENDS Integers, Sequences, FiniteSets, TLC

VARIABLES
    phase,              \* "new": before __init__; "ready": constructed; "failed": __init__ raised
    api_key,            \* PydanticAgent.api_key
    id,                 \* Agent.id
    name,               \* Agent.name
    description,        \* Agent.description
    available_tools,    \* Agent.available_tools
    messages,           \* Agent.messages
    memories,           \* Agent.memories
    thoughts,           \* Agent.thoughts
    actions,            \* Agent.actions
    clock,              \* number of datetime.now() reads so far
    uuid_next,          \* number of uuid.uuid4() draws so far
    calls,              \* history: number of public method calls after construction
    last,               \* history: the last call, its arguments and how it ended
    system_prompt,      \* history: the system_prompt argument of __init__
    add_message_calls,  \* history: the (role, content) of every Agent.add_message call
    turns,              \* history: how the process_user_input calls ended
    tool,               \* the Tool whose validate_parameters is evaluated
    params,             \* the mapping handed to validate_parameters
    result              \* None, or Some(the value validate_parameters returned)

store == <<available_tools, messages, memories, thoughts, actions>>
identity == <<api_key, id, name, description>>
history == <<calls, last, system_prompt, add_message_calls, turns>>
probe == <<tool, params, result>>
vars == <<phase, identity, store, clock, uuid_next, history, probe>>

----------------------------------------------------------------------------
(* Bounds and input sets *)

MaxCalls == 3
MaxRequired == 2

MinImportance == 1
MaxImportance == 10

None == <<>>
Some(x) == <<x>>

Names == {"A"}
Descriptions == {"B"}
Prompts == {"", "sys"}
ApiKeys == {"", "sk"}
Roles == {"system", "user", "assistant", "tool"}
Contents == {"Hello", "Hi there"}
Sources == {"agent_knowledge_base"}
MemoryContents == {"Python is a high-level language"}
Importances == {-5} \cup ((MinImportance - 1) .. (MaxImportance + 1))
UserInputs == {"Hello"}
ThoughtContents == {"x"}
ThoughtTexts == {"plan"}
ResponseTexts == {"Hi there", "Sure"}
ActionTypes == {"response", "tool_use"}
ActionContents == {Some("Hi there")}
ParamNames == {"location", "query", "expression"}
ParamValues == {"Paris"}

----------------------------------------------------------------------------
(* models.py: the entities *)

Message(role, content, timestamp) ==
    [role |-> role, content |-> content, timestamp |-> timestamp]

\* Field(default=1, ge=1, le=10) on Memory.importance
importance_field(importance) ==
    importance >= MinImportance /\ importance <= MaxImportance

\* the model_validator: raises iff importance < 1 or importance > 10
validate_importance(importance) ==
    ~(importance < MinImportance \/ importance > MaxImportance)

\* variant of Memory_accepts: the upper limit is not enforced
Memory_accepts_upper_unchecked(importance) ==
    importance >= MinImportance

\* Memory(...) constructs iff the field constraint and the validator pass
Memory_accepts(importance) ==
    importance_field(importance) /\ validate_importance(importance)

Memory(mid, content, source, importance, created_at) ==
    [id |-> mid, content |-> content, source |-> source,
     importance |-> importance, created_at |-> created_at,
     last_accessed |-> None]

Tool(tname, tdescription, parameters, required_parameters) ==
    [name |-> tname, description |-> tdescription,
     parameters |-> parameters, required_parameters |-> required_parameters]

AgentAction(action_type, content, timestamp) ==
    [action_type |-> action_type, content |-> content,
     tool_name |-> None, tool_parameters |-> None, timestamp |-> timestamp]

AgentThought(content, timestamp) ==
    [content |-> content, timestamp |-> timestamp]

\* all(param in params for param in required): left to right, stops at the
\* first name that is missing
RECURSIVE all_present(_, _)
all_present(required, given) ==
    IF required = <<>> THEN TRUE
    ELSE IF Head(required) \in DOMAIN given
         THEN all_present(Tail(required), given)
         ELSE FALSE

\* any(param in params for param in required)
RECURSIVE any_present(_, _)
any_present(required, given) ==
    IF required = <<>> THEN FALSE
    ELSE IF Head(required) \in DOMAIN given
         THEN TRUE
         ELSE any_present(Tail(required), given)

\* variant of validate_parameters: any() in place of all()
validate_parameters_any(t, given) ==
    any_present(t.required_parameters, given)

validate_parameters(t, given) ==
    all_present(t.required_parameters, given)

----------------------------------------------------------------------------
(* tools.py: the tool factories *)

create_weather_tool ==
    Tool("get_weather", "Get current weather information for a location",
         [p \in {"location"} |-> "The city and state or country"],
         <<"location">>)

create_search_tool ==
    Tool("web_search", "Search the web for information",
         [p \in {"query", "num_results"} |-> "The search query or count"],
         <<"query">>)

create_calculator_tool ==
    Tool("calculator", "Perform a mathematical calculation",
         [p \in {"expression"} |-> "The mathematical expression to evaluate"],
         <<"expression">>)

create_time_tool ==
    Tool("get_time", "Get the current date and time",
         [p \in {"timezone"} |-> "Optional timezone (default: UTC)"],
         <<>>)

ToolCatalogue ==
    {create_weather_tool, create_search_tool, create_calculator_tool,
     create_time_tool}

----------------------------------------------------------------------------
(* models.py: the Agent's mutators, as functions on the list they append to *)

\* variant of Agent_add_message: insert(0, ...) in place of append
Agent_add_message_front(msgs, role, content, timestamp) ==
    <<Message(role, content, timestamp)>> \o msgs

\* variant of Agent_add_message: a role outside the three is dropped
Agent_add_message_enum(msgs, role, content, timestamp) ==
    IF role \in {"system", "user", "assistant"}
    THEN Append(msgs, Message(role, content, timestamp))
    ELSE msgs

\* variant of Agent_add_message: a repeated role replaces the last message
Agent_add_message_overwrite(msgs, role, content, timestamp) ==
    IF Len(msgs) > 1 /\ msgs[Len(msgs)].role = role
    THEN [msgs EXCEPT ![Len(msgs)] = Message(role, content, timestamp)]
    ELSE Append(msgs, Message(role, content, timestamp))

Agent_add_message(msgs, role, content, timestamp) ==
    Append(msgs, Message(role, content, timestamp))

Agent_add_thought(ths, content, timestamp) ==
    Append(ths, AgentThought(content, timestamp))

Agent_add_memory(mems, memory) ==
    Append(mems, memory)

Agent_record_action(acts, action) ==
    Append(acts, action)

----------------------------------------------------------------------------
(* History variables: what was called, with what, and how it ended *)

Call(op, role, content, importance, outcome) ==
    [op |-> op, role |-> role, content |-> content,
     importance |-> importance, result |-> outcome]

NoTurns == [ok |-> 0, think_failed |-> 0, response_failed |-> 0]

\* what an external text-generation call can do: raise (None) or return a text
LLMOutcomes(texts) == {None} \cup {Some(t) : t \in texts}

----------------------------------------------------------------------------
(* agent.py: PydanticAgent *)

Init ==
    /\ phase = "new"
    /\ api_key = ""
    /\ id = 0
    /\ name = ""
    /\ description = ""
    /\ available_tools = <<>>
    /\ messages = <<>>
    /\ memories = <<>>
    /\ thoughts = <<>>
    /\ actions = <<>>
    /\ clock = 0
    /\ uuid_next = 0
    /\ calls = 0
    /\ last = Call("none", "", "", 0, "ok")
    /\ system_prompt = ""
    /\ add_message_calls = <<>>
    /\ turns = NoTurns
    /\ tool = create_time_tool
    /\ params = [p \in {} |-> "Paris"]
    /\ result = None

\* variant of PydanticAgent_init: an empty system prompt raises too
PydanticAgent_init_rejects_empty(n, d, p, key_arg, key_env) ==
    LET key == IF key_arg # "" THEN key_arg ELSE key_env IN
    /\ phase = "new"
    /\ api_key' = key
    /\ system_prompt' = p
    /\ IF key = "" \/ p = ""
       THEN /\ phase' = "failed"
            /\ last' = Call("create", "", p, 0, "ValueError")
            /\ UNCHANGED <<id, name, description, store, clock, uuid_next>>
       ELSE /\ phase' = "ready"
            /\ id' = uuid_next + 1
            /\ uuid_next' = uuid_next + 1
            /\ name' = n
            /\ description' = d
            /\ available_tools' = <<>>
            /\ messages' = <<Message("system", p, clock)>>
            /\ clock' = clock + 1
            /\ memories' = <<>>
            /\ thoughts' = <<>>
            /\ actions' = <<>>
            /\ last' = Call("create", "", p, 0, "ok")
    /\ UNCHANGED <<calls, add_message_calls, turns, probe>>

\* variant of PydanticAgent_init: the prompt is seeded as a second, user message
PydanticAgent_init_seeds_user(n, d, p, key_arg, key_env) ==
    LET key == IF key_arg # "" THEN key_arg ELSE key_env IN
    /\ phase = "new"
    /\ api_key' = key
    /\ system_prompt' = p
    /\ IF key = ""
       THEN /\ phase' = "failed"
            /\ last' = Call("create", "", p, 0, "ValueError")
            /\ UNCHANGED <<id, name, description, store, clock, uuid_next>>
       ELSE /\ phase' = "ready"
            /\ id' = uuid_next + 1
            /\ uuid_next' = uuid_next + 1
            /\ name' = n
            /\ description' = d
            /\ available_tools' = <<>>
            /\ messages' = <<Message("system", "", clock),
                             Message("user", p, clock + 1)>>
            /\ clock' = clock + 2
            /\ memories' = <<>>
            /\ thoughts' = <<>>
            /\ actions' = <<>>
            /\ last' = Call("create", "", p, 0, "ok")
    /\ UNCHANGED <<calls, add_message_calls, turns, probe>>

\* __init__: self.api_key = openai_api_key or os.getenv(...); raise ValueError
\* if it is empty; else build the Agent seeded with the system message
PydanticAgent_init(n, d, p, key_arg, key_env) ==
    LET key == IF key_arg # "" THEN key_arg ELSE key_env IN
    /\ phase = "new"
    /\ api_key' = key
    /\ system_prompt' = p
    /\ IF key = ""
       THEN /\ phase' = "failed"
            /\ last' = Call("create", "", p, 0, "ValueError")
            /\ UNCHANGED <<id, name, description, store, clock, uuid_next>>
       ELSE /\ phase' = "ready"
            /\ id' = uuid_next + 1
            /\ uuid_next' = uuid_next + 1
            /\ name' = n
            /\ description' = d
            /\ available_tools' = <<>>
            /\ messages' = <<Message("system", p, clock)>>
            /\ clock' = clock + 1
            /\ memories' = <<>>
            /\ thoughts' = <<>>
            /\ actions' = <<>>
            /\ last' = Call("create", "", p, 0, "ok")
    /\ UNCHANGED <<calls, add_message_calls, turns, probe>>

\* variant of add_tool: insert(0, tool) in place of append
add_tool_front(t) ==
    /\ phase = "ready"
    /\ calls < MaxCalls
    /\ available_tools' = <<t>> \o available_tools
    /\ calls' = calls + 1
    /\ last' = Call("add_tool", "", t.name, 0, "ok")
    /\ UNCHANGED <<phase, identity, messages, memories, thoughts, actions,
                   clock, uuid_next, system_prompt, add_message_calls, turns,
                   probe>>

\* PydanticAgent.add_tool
add_tool(t) ==
    /\ phase = "ready"
    /\ calls < MaxCalls
    /\ available_tools' = Append(available_tools, t)
    /\ calls' = calls + 1
    /\ last' = Call("add_tool", "", t.name, 0, "ok")
    /\ UNCHANGED <<phase, identity, messages, memories, thoughts, actions,
                   clock, uuid_next, system_prompt, add_message_calls, turns,
                   probe>>

\* variant of add_memory: the memory is appended before it is validated
add_memory_append_first(content, source, importance) ==
    /\ phase = "ready"
    /\ calls < MaxCalls
    /\ calls' = calls + 1
    /\ uuid_next' = uuid_next + 1
    /\ clock' = clock + 1
    /\ memories' = Agent_add_memory(memories,
                      Memory(uuid_next + 1, content, source, importance, clock))
    /\ last' = Call("add_memory", "", content, importance,
                    IF Memory_accepts(importance) THEN "ok" ELSE "ValidationError")
    /\ UNCHANGED <<phase, identity, available_tools, messages, thoughts,
                   actions, system_prompt, add_message_calls, turns, probe>>

\* PydanticAgent.add_memory: Memory(...) raises before anything is appended
add_memory(content, source, importance) ==
    /\ phase = "ready"
    /\ calls < MaxCalls
    /\ calls' = calls + 1
    /\ uuid_next' = uuid_next + 1
    /\ IF Memory_accepts(importance)
       THEN /\ memories' = Agent_add_memory(memories,
                   Memory(uuid_next + 1, content, source, importance, clock))
            /\ clock' = clock + 1
            /\ last' = Call("add_memory", "", content, importance, "ok")
       ELSE /\ last' = Call("add_memory", "", content, importance,
                            "ValidationError")
            /\ UNCHANGED <<memories, clock>>
    /\ UNCHANGED <<phase, identity, available_tools, messages, thoughts,
                   actions, system_prompt, add_message_calls, turns, probe>>

\* agent_model.add_message(role, content), called from outside
add_message(role, content) ==
    /\ phase = "ready"
    /\ calls < MaxCalls
    /\ calls' = calls + 1
    /\ messages' = Agent_add_message(messages, role, content, clock)
    /\ clock' = clock + 1
    /\ add_message_calls' =
           Append(add_message_calls, [role |-> role, content |-> content])
    /\ last' = Call("add_message", role, content, 0, "ok")
    /\ UNCHANGED <<phase, identity, available_tools, memories, thoughts,
                   actions, uuid_next, system_prompt, turns, probe>>

\* agent_model.add_thought(content), called from outside
add_thought(content) ==
    /\ phase = "ready"
    /\ calls < MaxCalls
    /\ calls' = calls + 1
    /\ thoughts' = Agent_add_thought(thoughts, content, clock)
    /\ clock' = clock + 1
    /\ last' = Call("add_thought", "", content, 0, "ok")
    /\ UNCHANGED <<phase, identity, available_tools, messages, memories,
                   actions, uuid_next, system_prompt, add_message_calls,
                   turns, probe>>

\* agent_model.record_action(AgentAction(...)), called from outside
record_action(action_type, content) ==
    /\ phase = "ready"
    /\ calls < MaxCalls
    /\ calls' = calls + 1
    /\ actions' = Agent_record_action(actions,
                      AgentAction(action_type, content, clock))
    /\ clock' = clock + 1
    /\ last' = Call("record_action", "", action_type, 0, "ok")
    /\ UNCHANGED <<phase, identity, available_tools, messages, memories,
                   thoughts, uuid_next, system_prompt, add_message_calls,
                   turns, probe>>

\* variant of process_user_input: the assistant message is written before
\* the action, from the thought
process_user_input_reply_first(user_input, thought, response) ==
    LET m1 == Agent_add_message(messages, "user", user_input, clock) IN
    /\ phase = "ready"
    /\ calls < MaxCalls
    /\ calls' = calls + 1
    /\ IF thought = None
       THEN /\ messages' = m1
            /\ clock' = clock + 1
            /\ add_message_calls' = Append(add_message_calls,
                   [role |-> "user", content |-> user_input])
            /\ turns' = [turns EXCEPT !.think_failed = @ + 1]
            /\ last' = Call("process_user_input", "", user_input, 0,
                            "LLMError")
            /\ UNCHANGED <<thoughts, actions>>
       ELSE IF response = None
       THEN /\ messages' = m1
            /\ thoughts' = Agent_add_thought(thoughts, thought[1], clock + 1)
            /\ clock' = clock + 2
            /\ add_message_calls' = Append(add_message_calls,
                   [role |-> "user", content |-> user_input])
            /\ turns' = [turns EXCEPT !.response_failed = @ + 1]
            /\ last' = Call("process_user_input", "", user_input, 0,
                            "LLMError")
            /\ UNCHANGED actions
       ELSE /\ thoughts' = Agent_add_thought(thoughts, thought[1], clock + 1)
            /\ messages' = Agent_add_message(m1, "assistant", thought[1],
                                             clock + 2)
            /\ actions' = Agent_record_action(actions,
                   AgentAction("response", response, clock + 3))
            /\ clock' = clock + 4
            /\ add_message_calls' = add_message_calls \o
                   << [role |-> "user", content |-> user_input],
                      [role |-> "assistant", content |-> thought[1]] >>
            /\ turns' = [turns EXCEPT !.ok = @ + 1]
            /\ last' = Call("process_user_input", "", user_input, 0, "ok")
    /\ UNCHANGED <<phase, identity, available_tools, memories, uuid_next,
                   system_prompt, probe>>

\* PydanticAgent.process_user_input, with _think inlined.  thought and
\* response are what the two text-generation calls do: None when the call
\* raises, which ends the method there with what was appended so far.
process_user_input(user_input, thought, response) ==
    LET m1 == Agent_add_message(messages, "user", user_input, clock) IN
    /\ phase = "ready"
    /\ calls < MaxCalls
    /\ calls' = calls + 1
    /\ IF thought = None
       THEN /\ messages' = m1
            /\ clock' = clock + 1
            /\ add_message_calls' = Append(add_message_calls,
                   [role |-> "user", content |-> user_input])
            /\ turns' = [turns EXCEPT !.think_failed = @ + 1]
            /\ last' = Call("process_user_input", "", user_input, 0,
                            "LLMError")
            /\ UNCHANGED <<thoughts, actions>>
       ELSE IF response = None
       THEN /\ messages' = m1
            /\ thoughts' = Agent_add_thought(thoughts, thought[1], clock + 1)
            /\ clock' = clock + 2
            /\ add_message_calls' = Append(add_message_calls,
                   [role |-> "user", content |-> user_input])
            /\ turns' = [turns EXCEPT !.response_failed = @ + 1]
            /\ last' = Call("process_user_input", "", user_input, 0,
                            "LLMError")
            /\ UNCHANGED actions
       ELSE /\ thoughts' = Agent_add_thought(thoughts, thought[1], clock + 1)
            /\ actions' = Agent_record_action(actions,
                   AgentAction("response", response, clock + 2))
            /\ messages' = Agent_add_message(m1, "assistant", response[1],
                                             clock + 3)
            /\ clock' = clock + 4
            /\ add_message_calls' = add_message_calls \o
                   << [role |-> "user", content |-> user_input],
                      [role |-> "assistant", content |-> response[1]] >>
            /\ turns' = [turns EXCEPT !.ok = @ + 1]
            /\ last' = Call("process_user_input", "", user_input, 0, "ok")
    /\ UNCHANGED <<phase, identity, available_tools, memories, uuid_next,
                   system_prompt, probe>>

Next ==
    \/ \E n \in Names, d \in Descriptions, p \in Prompts,
          key_arg \in ApiKeys, key_env \in ApiKeys :
          PydanticAgent_init(n, d, p, key_arg, key_env)
    \/ \E t \in ToolCatalogue : add_tool(t)
    \/ \E c \in MemoryContents, s \in Sources, i \in Importances :
          add_memory(c, s, i)
    \/ \E r \in Roles, c \in Contents : add_message(r, c)
    \/ \E c \in ThoughtContents : add_thought(c)
    \/ \E a \in ActionTypes, c \in ActionContents : record_action(a, c)
    \/ \E u \in UserInputs, t \in LLMOutcomes(ThoughtTexts),
          r \in LLMOutcomes(ResponseTexts) : process_user_input(u, t, r)

Spec == Init /\ [][Next]_vars

----------------------------------------------------------------------------
(* Tool.validate_parameters as a function of its inputs *)

RECURSIVE SeqsUpTo(_, _)
SeqsUpTo(S, n) ==
    IF n = 0 THEN {<<>>}
    ELSE LET shorter == SeqsUpTo(S, n - 1) IN
         shorter \cup {Append(q, x) : q \in shorter, x \in S}

ToolInputs ==
    ToolCatalogue \cup
    {Tool("t", "d", [p \in ParamNames |-> "d"], req) :
        req \in SeqsUpTo(ParamNames, MaxRequired)}

ParamInputs == UNION {[S -> ParamValues] : S \in SUBSET ParamNames}

InitTool ==
    /\ phase = "new"
    /\ api_key = ""
    /\ id = 0
    /\ name = ""
    /\ description = ""
    /\ available_tools = <<>>
    /\ messages = <<>>
    /\ memories = <<>>
    /\ thoughts = <<>>
    /\ actions = <<>>
    /\ clock = 0
    /\ uuid_next = 0
    /\ calls = 0
    /\ last = Call("none", "", "", 0, "ok")
    /\ system_prompt = ""
    /\ add_message_calls = <<>>
    /\ turns = NoTurns
    /\ tool \in ToolInputs
    /\ params \in ParamInputs
    /\ result = None

Tool_validate_parameters ==
    /\ result = None
    /\ result' = Some(validate_parameters(tool, params))
    /\ UNCHANGED <<phase, identity, store, clock, uuid_next, history, tool,
                   params>>

NextTool == Tool_validate_parameters

SpecTool == InitTool /\ [][NextTool]_vars

----------------------------------------------------------------------------
(* Properties *)

IsPrefix(s, t) ==
    /\ Len(s) <= Len(t)
    /\ \A i \in 1..Len(s) : t[i] = s[i]

EnumRoles == {"system", "user", "assistant"}

\* the step just taken was a call of op (every call advances calls; __init__
\* leaves phase "new")
Called(op) ==
    /\ last'.op = op
    /\ (calls' # calls \/ phase' # phase)

OnlyTurns ==
    /\ phase = "ready"
    /\ calls = turns.ok + turns.think_failed + turns.response_failed

\* C1: add_memory(content, source, i) succeeds and appends a Memory carrying
\* content and i iff 1 <= i <= 10; for any other i it ends in a validation
\* error and appends no Memory.
C1_AddMemoryIffInRange ==
    [][Called("add_memory") =>
        IF 1 <= last'.importance /\ last'.importance <= 10
        THEN /\ last'.result = "ok"
             /\ Len(memories') = Len(memories) + 1
             /\ memories'[Len(memories')].importance = last'.importance
             /\ memories'[Len(memories')].content = last'.content
        ELSE /\ last'.result = "ValidationError"
             /\ Len(memories') = Len(memories)]_vars

C1_Witness ==
    /\ Len(memories) = 2
    /\ memories[1].importance = 1
    /\ memories[2].importance = 10
    /\ last.op = "add_memory"
    /\ last.importance = 11
    /\ last.result = "ValidationError"

\* C2: an add_memory call with an importance outside [1,10] raises and leaves
\* messages, memories, thoughts, actions and available_tools as they were.
C2_InvalidMemoryLeavesStore ==
    [][(Called("add_memory") /\ last'.importance \notin 1..10) =>
        /\ last'.result = "ValidationError"
        /\ available_tools' = available_tools
        /\ messages' = messages
        /\ memories' = memories
        /\ thoughts' = thoughts
        /\ actions' = actions]_vars

C2_Witness ==
    /\ last.op = "add_memory"
    /\ last.importance = 0
    /\ last.result = "ValidationError"
    /\ Len(memories) = 1
    /\ Len(messages) = 2

\* C3: right after construction with system prompt p, messages is exactly
\* one message of role "system" and content p, and the tool catalogue,
\* memories, thoughts and actions are empty.
C3_FreshAgent ==
    (phase = "ready" /\ last.op = "create") =>
        /\ Len(messages) = 1
        /\ messages[1].role = "system"
        /\ messages[1].content = system_prompt
        /\ available_tools = <<>>
        /\ memories = <<>>
        /\ thoughts = <<>>
        /\ actions = <<>>

C3_Witness ==
    /\ phase = "ready"
    /\ last.op = "create"
    /\ system_prompt = "sys"
    /\ name = "A"
    /\ description = "B"

\* C4, as claimed: construction with an empty system prompt fails, so no
\* agent is constructed from one.
C4_EmptyPromptRejected ==
    (phase # "new" /\ system_prompt = "") => phase = "failed"

\* C4, amended: construction with an empty system prompt fails only when no
\* API key is available; with a key it succeeds and seeds messages with a
\* system message of empty content.
C4_EmptyPromptAccepted ==
    (phase # "new" /\ system_prompt = "") =>
        IF api_key = ""
        THEN phase = "failed"
        ELSE /\ phase = "ready"
             /\ Len(messages) >= 1
             /\ messages[1].role = "system"
             /\ messages[1].content = ""

C4_Witness ==
    /\ phase = "ready"
    /\ last.op = "create"
    /\ last.result = "ok"
    /\ system_prompt = ""
    /\ messages[1].content = ""

\* C5: in every state after construction messages is non-empty and its first
\* entry is the system message written by the constructor: role "system",
\* the constructor's system prompt, the constructor's timestamp.
C5_SystemPromptFirst ==
    phase = "ready" =>
        /\ Len(messages) >= 1
        /\ messages[1] = Message("system", system_prompt, 0)

C5_Witness ==
    /\ phase = "ready"
    /\ Len(messages) = 4
    /\ messages[2].role = "system"
    /\ messages[3].role = "user"
    /\ messages[4].role = "assistant"
    /\ turns.ok = 1

\* C6: messages is the system seed followed by one message per
\* Agent.add_message call, the k-th call's role and content at index k
\* (counting the seed as index 0), and no call changes an earlier entry.
C6_AddMessageAdditive ==
    /\ [](phase = "ready" =>
            /\ Len(messages) = 1 + Len(add_message_calls)
            /\ \A k \in 1..Len(add_message_calls) :
                  /\ messages[k + 1].role = add_message_calls[k].role
                  /\ messages[k + 1].content = add_message_calls[k].content)
    /\ [][\A i \in 1..Len(messages) :
            i <= Len(messages') /\ messages'[i] = messages[i]]_vars

C6_Witness ==
    /\ Len(add_message_calls) = 3
    /\ calls = 3
    /\ last.op = "add_message"
    /\ add_message_calls[1] = [role |-> "user", content |-> "Hello"]
    /\ add_message_calls[2] = [role |-> "assistant", content |-> "Hi there"]
    /\ add_message_calls[3] = [role |-> "user", content |-> "Hi there"]
    /\ Len(messages) = 4

\* C7, as claimed: every message has a role in {system, user, assistant}.
C7_RolesEnumerated ==
    \A i \in 1..Len(messages) : messages[i].role \in EnumRoles

\* C7, amended: add_message takes any string as role and appends exactly one
\* message with that role and content, also for a role outside {system,
\* user, assistant}; only the messages written by the constructor and by
\* process_user_input are sure to have a role in that set.
C7_AnyRoleAppended ==
    [][/\ Called("add_message") =>
            /\ Len(messages') = Len(messages) + 1
            /\ messages'[Len(messages')].role = last'.role
            /\ messages'[Len(messages')].content = last'.content
       /\ (Called("create") \/ Called("process_user_input")) =>
            \A i \in (Len(messages) + 1)..Len(messages') :
                messages'[i].role \in EnumRoles]_vars

C7_Witness ==
    /\ last.op = "add_message"
    /\ last.role = "tool"
    /\ Len(messages) = 2
    /\ messages[2].role = "tool"

\* C8: validate_parameters(params) is true iff every name in the tool's
\* required_parameters is a key of params.
C8_ValidateParameters ==
    result # None =>
        result[1] = (\A i \in 1..Len(tool.required_parameters) :
                        tool.required_parameters[i] \in DOMAIN params)

C8_Witness ==
    /\ tool = create_weather_tool
    /\ DOMAIN params = {}
    /\ result = Some(FALSE)

\* C9: every step leaves each of available_tools, messages, memories,
\* thoughts and actions a prefix of its new value.
C9_AppendOnly ==
    [][/\ IsPrefix(available_tools, available_tools')
       /\ IsPrefix(messages, messages')
       /\ IsPrefix(memories, memories')
       /\ IsPrefix(thoughts, thoughts')
       /\ IsPrefix(actions, actions')]_vars

C9_Witness ==
    available_tools =
        <<create_weather_tool, create_search_tool, create_calculator_tool>>

\* C10, as claimed: when only process_user_input is used, every state
\* between turns has, for some number k of turns, 1 + 2k messages with roles
\* system, user, assistant, ..., k thoughts and k actions.
C10_TurnsComplete ==
    OnlyTurns =>
        \E k \in 0..calls :
            /\ Len(messages) = 1 + 2 * k
            /\ Len(thoughts) = k
            /\ Len(actions) = k
            /\ \A j \in 1..k : /\ messages[2 * j].role = "user"
                               /\ messages[2 * j + 1].role = "assistant"

\* C10, amended: a turn whose two generation calls succeed appends, in this
\* order, a user message, a thought, an action of type "response" and an
\* assistant message with the action's content; a turn whose thinking call
\* raises appends only the user message, and one whose response call raises
\* only the user message and the thought.  So with s completed turns, f1
\* failed in thinking and f2 failed in responding there are 1 + 2s + f1 + f2
\* messages, s + f2 thoughts and s actions, and with no failed turn the
\* roles run system, user, assistant, user, assistant, ...
C10_TurnsAppend ==
    OnlyTurns =>
        /\ Len(messages) =
               1 + 2 * turns.ok + turns.think_failed + turns.response_failed
        /\ Len(thoughts) = turns.ok + turns.response_failed
        /\ Len(actions) = turns.ok
        /\ \A j \in 1..Len(actions) : actions[j].action_type = "response"
        /\ (turns.think_failed + turns.response_failed = 0) =>
              \A j \in 1..turns.ok :
                 /\ messages[2 * j].role = "user"
                 /\ messages[2 * j + 1].role = "assistant"
                 /\ actions[j].content = Some(messages[2 * j + 1].content)
                 /\ messages[2 * j].timestamp < thoughts[j].timestamp
                 /\ thoughts[j].timestamp < actions[j].timestamp
                 /\ actions[j].timestamp < messages[2 * j + 1].timestamp

C10_Witness ==
    /\ OnlyTurns
    /\ turns.ok = 1
    /\ turns.think_failed = 1
    /\ turns.response_failed = 1

====
